---- MODULE Spec2Model ----
(***************************************************************************)
(* Batch PDF export of the badge designer: export_pdf (the row loop, the   *)
(* grid packing and the page breaks), run by the desktop progress dialog   *)
(* (a worker thread plus the Tk event loop) or by the web front end (a     *)
(* worker thread plus the request handlers that poll the task).            *)
(***************************************************************************)
EXTENDS Integers, Sequences, FiniteSets, TLC

\* ---------------------------------------------------------------- bounds
MaxCols == 2
MaxGridRows == 4
MaxRowCount == 10
MaxFontSize == 12
MaxWidthTens == 3
MaxReleases == 2
\* Width of one character of PIL's built-in bitmap font, whatever the size
\* asked for.
DefaultCharWidth == 6

\* ---------------------------------------------------- program constants
\* The floor of the auto-shrink loop (effective_size > 8).
ShrinkFloor == 8
\* BadgeConfig defaults.
DefaultBadgeWidth == 1050
DefaultBadgeHeight == 600

\* Messages an exception can carry; str(e) of an exception built without
\* arguments is the empty string.
Messages == {"", "disk full"}

\* Optional[str]: None or a string.
None == <<>>
Some(s) == <<s>>
\* Python truthiness of an Optional[str]: None and "" are falsy.
Truthy(e) == e # None /\ e[1] # ""

VARIABLES
    frontend,         \* "desktop" (gui/) or "web" (web/app.py)
    cols,             \* config.badges_per_row
    rows,             \* config.badges_per_col
    total_rows,       \* csv_data.row_count
    pc,               \* position of the worker thread
    i,                \* loop variable of export_pdf
    pages,            \* pages emitted into the document, in emission order
    page,             \* content of the canvas' current, not yet emitted page
    saved,            \* the document has been written to output_path
    rendered,         \* rows handed to render_badge, in call order
    polls,            \* results of is_cancelled(), one record per call
    progress_calls,   \* arguments of on_progress, in call order
    exc,              \* exception that left export_pdf (its message, and
                      \* where it was raised), or None
    dialog_open,      \* ExportProgressDialog exists (not destroyed)
    dialog_cancelled, \* dialog._cancelled
    dialog_error,     \* dialog._error
    btn_cancel,       \* state of the Cancel button
    progress_var,     \* dialog.progress_var
    after_queue,      \* callbacks scheduled with self.after(0, ...)
    error_box,        \* message shown by messagebox.showerror, or None
    outcome,          \* what MainWindow._export_pdf reports after wait_window
    cancel_req,       \* history: worker position when Cancel was clicked
    task,             \* state.export_tasks[task_id], or None
    status_resp,      \* last response of GET /api/export-pdf/status
    download_resp,    \* last response of GET /api/export-pdf/download
    accesses,         \* history: accesses made to the task and the task
                      \* table, each with whether state.lock was held
    \* ---- render_badge / _draw_field / CSVData.get_value
    fields,           \* config.fields, a list of FieldPlacement
    csv_rows,         \* csv_data.rows, a list of dicts column -> text
    font_found,       \* a TrueType file can be opened for the field's font
    background,       \* the shared pre-loaded background image, or None
    rpc,              \* position inside render_badge
    row_index,        \* render_badge's row_index argument
    badge,            \* the image render_badge draws on
    result,           \* the image render_badge last returned, or None
    fidx,             \* index in config.fields of the field being drawn
    text,             \* _draw_field's text
    font,             \* _draw_field's font
    effective_size,   \* _draw_field's effective_size
    text_width,       \* _draw_field's text_width
    n_shrinks,        \* history: decrements made by the current loop
    render_exc,       \* exception that left render_badge, or None
    fp_before,        \* history: config.fields when render_badge was called
    drawn_log,        \* history: (row, field, size) of every draw.text call
    \* ---- the editing session's template and export_pdf's layout
    config,           \* the session's BadgeConfig: dimensions and PDF options
    layout,           \* export_pdf's cell and draw sizes, or how it failed
    \* ---- the desktop canvas editor
    canvas_size,      \* the canvas widget's winfo_width() and winfo_height()
    _scale,           \* CanvasEditor._scale
    _offset_x,        \* CanvasEditor._offset_x
    _offset_y,        \* CanvasEditor._offset_y
    field_xy,         \* x and y of each of config.fields
    item_coords,      \* canvas coordinates of each field's text item
    _drag_field_idx,  \* CanvasEditor._drag_field_idx, or None
    _drag_start_x,    \* CanvasEditor._drag_start_x
    _drag_start_y,    \* CanvasEditor._drag_start_y
    button_down,      \* mouse button 1 is held down over the canvas
    scale_args,       \* history: arguments of the last compute_scale_factor
    released,         \* history: the last drag release, or None
    \* ---- the web session's CSV data and the POST /api/export-pdf handler
    csv_headers,      \* state.csv_data.headers
    current_row,      \* state.current_row
    csv_resp,         \* history: the last response of a CSV handler, or None
    post,             \* position and local task dict of start_pdf_export
    captured          \* what start_pdf_export captured for the worker, or
                      \* None

vars == <<frontend, cols, rows, total_rows, pc, i, pages, page, saved,
          rendered, polls, progress_calls, exc, dialog_open,
          dialog_cancelled, dialog_error, btn_cancel, progress_var,
          after_queue, error_box, outcome, cancel_req, task, status_resp,
          download_resp, accesses, fields, csv_rows, font_found, background,
          rpc, row_index, badge, result, fidx, text, font, effective_size,
          text_width, n_shrinks, render_exc, fp_before, drawn_log, config,
          layout, canvas_size, _scale, _offset_x, _offset_y, field_xy,
          item_coords, _drag_field_idx, _drag_start_x, _drag_start_y,
          button_down, scale_args, released, csv_headers, current_row,
          csv_resp, post, captured>>

renderVars == <<fields, csv_rows, font_found, background, rpc, row_index,
                badge, result, fidx, text, font, effective_size, text_width,
                n_shrinks, render_exc, fp_before, drawn_log>>

\* What no step of an export changes: the captured configuration, the state
\* of the single-badge renderer and the session's template.
sessionVars == <<config, layout>>
editorVars == <<canvas_size, _scale, _offset_x, _offset_y, field_xy,
                item_coords, _drag_field_idx, _drag_start_x, _drag_start_y,
                button_down, scale_args, released>>

csvVars == <<csv_headers, current_row, csv_resp, post, captured>>
\* renderVars without csv_rows.
renderRest == <<fields, font_found, background, rpc, row_index, badge,
                result, fidx, text, font, effective_size, text_width,
                n_shrinks, render_exc, fp_before, drawn_log>>

cfgVars == <<frontend, cols, rows, total_rows, renderVars, sessionVars,
             editorVars, csvVars>>
docVars == <<pages, page, saved>>
dlgVars == <<dialog_open, dialog_cancelled, dialog_error, btn_cancel,
             progress_var, after_queue, error_box, outcome, cancel_req>>
webVars == <<task, status_resp, download_resp, accesses>>
exportCore == <<frontend, cols, rows, total_rows, pc, i, docVars, rendered,
                polls, progress_calls, exc, dlgVars, webVars>>
exportVars == <<exportCore, csvVars>>

\* ------------------------------------------------------ grid arithmetic
badges_per_page == cols * rows

page_idx(n) == n % badges_per_page

col(n) == page_idx(n) % cols

\* Mutant of row_on_page: divides by the grid's row count.
row_on_page_by_rows(n) == page_idx(n) \div rows

row_on_page(n) == page_idx(n) \div cols

\* Mutant of new_page: compares with badges_per_page, which page_idx
\* never reaches.
new_page_off_by_one(n) == page_idx(n) = badges_per_page /\ n < total_rows - 1

\* Mutant of new_page: breaks after every full page, also after the last
\* badge.
new_page_ignores_remaining(n) == page_idx(n) = badges_per_page - 1

\* The page is full and more badges remain (line 91).
new_page(n) == page_idx(n) = badges_per_page - 1 /\ n < total_rows - 1

\* ------------------------------------------------------------- Init
\* No export has been started.
ExportIdle ==
    /\ pc = "idle"
    /\ i = 0
    /\ pages = <<>>
    /\ page = <<>>
    /\ saved = FALSE
    /\ rendered = <<>>
    /\ polls = <<>>
    /\ progress_calls = <<>>
    /\ exc = None
    /\ dialog_open = FALSE
    /\ dialog_cancelled = FALSE
    /\ dialog_error = None
    /\ btn_cancel = "normal"
    /\ progress_var = 0
    /\ after_queue = <<>>
    /\ error_box = None
    /\ outcome = "none"
    /\ cancel_req = None
    /\ task = None
    /\ status_resp = None
    /\ download_resp = "none"
    /\ accesses = {}
    /\ csv_headers = <<>>
    /\ current_row = 0
    /\ csv_resp = None
    /\ post = [pc |-> "idle", task |-> None]
    /\ captured = None

\* An image: its size, what it was made from, and the draw.text calls made
\* on it, in order.
Image(size, base) == [size |-> size, base |-> base, drawn |-> <<>>]

\* ------------------------------------------------------- exact fractions
\* Python's floats are modelled as exact fractions n/d in lowest terms, d > 0.
Abs(a) == IF a < 0 THEN 0 - a ELSE a

RECURSIVE GCD(_, _)
GCD(a, b) == IF b = 0 THEN a ELSE GCD(b, a % b)

Frac(n, d) ==
    LET g == GCD(Abs(n), Abs(d))
        sign == IF d < 0 THEN 0 - 1 ELSE 1
    IN [n |-> (sign * n) \div g, d |-> (sign * d) \div g]

Whole(k) == Frac(k, 1)

\* Common factors are divided out before multiplying, to keep the numbers
\* small.
Minus(a, b) ==
    LET g == GCD(a.d, b.d) IN
    Frac(a.n * (b.d \div g) - b.n * (a.d \div g), (a.d \div g) * b.d)
Times(a, b) ==
    LET g1 == GCD(Abs(a.n), b.d)
        g2 == GCD(Abs(b.n), a.d)
    IN Frac((a.n \div g1) * (b.n \div g2), (a.d \div g2) * (b.d \div g1))
\* a / b for b # 0.
Over(a, b) == Times(a, Frac(b.d, b.n))
Less(a, b) ==
    LET g == GCD(a.d, b.d) IN a.n * (b.d \div g) < b.n * (a.d \div g)
AtMost(a, b) == ~Less(b, a)
\* Python's max(a, b).
MaxOf(a, b) == IF Less(a, b) THEN b ELSE a

\* reportlab.lib.units.mm: 72 / 25.4 points.
mm == Frac(360, 127)

\* A length in millimetres that is this many points.
Points(k) == Over(Whole(k), mm)

\* BadgeConfig(): the defaults of the dimensions and the PDF options.
DefaultConfig ==
    [badge_width |-> DefaultBadgeWidth, badge_height |-> DefaultBadgeHeight,
     badges_per_row |-> 2, badges_per_col |-> 4, page_size |-> "letter",
     margin_mm |-> Whole(10), spacing_mm |-> Whole(2)]

\* export_pdf has computed no layout.
NoLayout ==
    [status |-> "none", cell_w |-> Whole(0), cell_h |-> Whole(0),
     draw_w |-> Whole(0), draw_h |-> Whole(0)]

\* No editing session is modelled: the template is the default one.
SessionIdle ==
    /\ config = DefaultConfig
    /\ layout = NoLayout

\* ---------------------------------------------------- canvas geometry
Plus(a, b) ==
    LET g == GCD(a.d, b.d) IN
    Frac(a.n * (b.d \div g) + b.n * (a.d \div g), (a.d \div g) * b.d)
\* Python's min(a, b).
MinOf(a, b) == IF Less(b, a) THEN b ELSE a

\* round(q, 1): the nearest multiple of 1/10, a tie going to the even one.
RoundTenth(q) ==
    LET t == Times(q, Whole(10))
        lo == t.n \div t.d
        twice == 2 * (t.n - lo * t.d)
    IN IF twice < t.d THEN Frac(lo, 10)
       ELSE IF twice > t.d THEN Frac(lo + 1, 10)
       ELSE IF lo % 2 = 0 THEN Frac(lo, 10) ELSE Frac(lo + 1, 10)

\* compute_scale_factor with the scale of the shorter axis.
compute_scale_factor_max(image_width, image_height, canvas_width, canvas_height) ==
    IF image_width <= 0 \/ image_height <= 0 THEN Whole(1)
    ELSE LET scale_x == Frac(canvas_width, image_width)
             scale_y == Frac(canvas_height, image_height)
         IN MaxOf(scale_x, scale_y)

compute_scale_factor(image_width, image_height, canvas_width, canvas_height) ==
    IF image_width <= 0 \/ image_height <= 0 THEN Whole(1)
    ELSE LET scale_x == Frac(canvas_width, image_width)
             scale_y == Frac(canvas_height, image_height)
         IN MinOf(scale_x, scale_y)

image_to_canvas(x, y, scale, offset_x, offset_y) ==
    <<Plus(Times(x, scale), offset_x), Plus(Times(y, scale), offset_y)>>

\* canvas_to_image without the offsets taken off.
canvas_to_image_no_offset(cx, cy, scale, offset_x, offset_y) ==
    IF scale = Whole(0) THEN <<Whole(0), Whole(0)>>
    ELSE <<Over(cx, scale), Over(cy, scale)>>

canvas_to_image(cx, cy, scale, offset_x, offset_y) ==
    IF scale = Whole(0) THEN <<Whole(0), Whole(0)>>
    ELSE <<Over(Minus(cx, offset_x), scale), Over(Minus(cy, offset_y), scale)>>

\* CanvasEditor.CANVAS_MAX_W, CANVAS_MAX_H
CANVAS_MAX_W == 700
CANVAS_MAX_H == 500

\* What CanvasEditor.refresh computes for template c, canvas size and
\* field positions xy: the scale, the centring offsets and the canvas
\* coordinates of the field items it draws.
Refreshed(c, size, xy) ==
    LET cw == IF size[1] # 0 THEN size[1] ELSE CANVAS_MAX_W
        ch == IF size[2] # 0 THEN size[2] ELSE CANVAS_MAX_H
        bw == c.badge_width
        bh == c.badge_height
        scale == compute_scale_factor(bw, bh, cw - 20, ch - 20)
        ox == Over(Minus(Whole(cw), Times(Whole(bw), scale)), Whole(2))
        oy == Over(Minus(Whole(ch), Times(Whole(bh), scale)), Whole(2))
    IN [scale |-> scale, offset_x |-> ox, offset_y |-> oy,
        args |-> Some(<<bw, bh, cw - 20, ch - 20>>),
        items |-> [k \in 1..Len(xy) |->
                     image_to_canvas(xy[k][1], xy[k][2], scale, ox, oy)]]

\* CanvasEditor.__init__ with no field placed: refresh has not run yet.
EditorIdle ==
    /\ canvas_size = <<CANVAS_MAX_W, CANVAS_MAX_H>>
    /\ _scale = Whole(1)
    /\ _offset_x = Whole(0)
    /\ _offset_y = Whole(0)
    /\ field_xy = <<>>
    /\ item_coords = <<>>
    /\ _drag_field_idx = None
    /\ _drag_start_x = 0
    /\ _drag_start_y = 0
    /\ button_down = FALSE
    /\ scale_args = None
    /\ released = None

\* The renderer is not in use: no fields, no CSV rows.
RenderIdle ==
    /\ fields = <<>>
    /\ csv_rows = <<>>
    /\ font_found = TRUE
    /\ background = None
    /\ rpc = "idle"
    /\ row_index = 0
    /\ badge = Image(<<DefaultBadgeWidth, DefaultBadgeHeight>>, "white")
    /\ result = None
    /\ fidx = 0
    /\ text = <<>>
    /\ font = [kind |-> "default", size |-> 0]
    /\ effective_size = 0
    /\ text_width = 0
    /\ n_shrinks = 0
    /\ render_exc = None
    /\ fp_before = <<>>
    /\ drawn_log = {}

Init ==
    /\ frontend \in {"desktop", "web"}
    /\ cols \in 1..MaxCols
    /\ rows \in 1..MaxGridRows
    /\ total_rows \in 0..MaxRowCount
    /\ ExportIdle
    /\ RenderIdle
    /\ SessionIdle
    /\ EditorIdle

\* ------------------------------------------------------------- helpers
\* The desktop dialog passes self._is_cancelled; the web worker passes no
\* is_cancelled, so `is_cancelled and is_cancelled()` never polls there.
is_cancelled_given == frontend = "desktop"

\* An exception with message m raised at the worker's current position.
Raise(m) == Some([msg |-> m, at |-> pc, row |-> i])

\* str(e)
str(e) == e[1].msg

\* One access to the shared export task state.
Access(by, what, op, locked) ==
    [by |-> by, what |-> what, op |-> op, locked |-> locked]

Badge(n) ==
    [row |-> n, page |-> Len(pages), col |-> col(n), row_on_page |-> row_on_page(n)]

\* ------------------------------------------------- starting an export
\* MainWindow._export_pdf up to wait_window: builds the dialog, whose
\* constructor starts the worker thread.
MainWindowExportPdf ==
    /\ frontend = "desktop"
    /\ pc = "idle"
    /\ pc' = "loop"
    /\ dialog_open' = TRUE
    /\ dialog_cancelled' = FALSE
    /\ dialog_error' = None
    /\ btn_cancel' = "normal"
    /\ progress_var' = 0
    /\ UNCHANGED <<cfgVars, i, docVars, rendered, polls, progress_calls, exc,
                   after_queue, error_box, outcome, cancel_req, webVars>>

\* POST /api/export-pdf: registers the task and starts the worker thread.
start_pdf_export ==
    /\ frontend = "web"
    /\ pc = "idle"
    /\ task' = Some([status |-> "running", progress |-> 0,
                     total |-> total_rows, error |-> None])
    /\ pc' = "loop"
    /\ accesses' = accesses \cup
          {Access("start_pdf_export", "export_tasks", "write", TRUE)}
    /\ UNCHANGED <<cfgVars, i, docVars, rendered, polls, progress_calls, exc,
                   dlgVars, status_resp, download_resp>>

\* ----------------------------------------------------------- export_pdf
\* Mutant of LoopHead: is_cancelled() is consulted before the first row only.
LoopHeadPollsFirstRowOnly ==
    /\ pc = "loop"
    /\ IF i >= total_rows
       THEN pc' = "save" /\ polls' = polls
       ELSE IF is_cancelled_given /\ i = 0
            THEN /\ polls' = Append(polls, [row |-> i, result |-> dialog_cancelled])
                 /\ pc' = IF dialog_cancelled THEN "save" ELSE "render"
            ELSE pc' = "render" /\ polls' = polls
    /\ UNCHANGED <<cfgVars, i, docVars, rendered, progress_calls, exc,
                   dlgVars, webVars>>

\* for i in range(total_rows): if is_cancelled and is_cancelled(): break
LoopHead ==
    /\ pc = "loop"
    /\ IF i >= total_rows
       THEN pc' = "save" /\ polls' = polls
       ELSE IF is_cancelled_given
            THEN /\ polls' = Append(polls, [row |-> i, result |-> dialog_cancelled])
                 /\ pc' = IF dialog_cancelled THEN "save" ELSE "render"
            ELSE pc' = "render" /\ polls' = polls
    /\ UNCHANGED <<cfgVars, i, docVars, rendered, progress_calls, exc,
                   dlgVars, webVars>>

\* render_badge, convert, PNG encode; any of them may raise.
Render ==
    /\ pc = "render"
    /\ rendered' = Append(rendered, i)
    /\ \/ pc' = "place" /\ exc' = exc
       \/ \E m \in Messages : pc' = "raised" /\ exc' = Raise(m)
    /\ UNCHANGED <<cfgVars, i, docVars, polls, progress_calls, dlgVars, webVars>>

\* Position on page, drawImage, and showPage when the page is full and
\* more badges remain; drawImage may raise.
Place ==
    /\ pc = "place"
    /\ \/ /\ IF new_page(i)
             THEN pages' = Append(pages, Append(page, Badge(i))) /\ page' = <<>>
             ELSE pages' = pages /\ page' = Append(page, Badge(i))
          /\ pc' = "progress"
          /\ exc' = exc
       \/ /\ \E m \in Messages : pc' = "raised" /\ exc' = Raise(m)
          /\ UNCHANGED <<pages, page>>
    /\ UNCHANGED <<cfgVars, i, saved, rendered, polls, progress_calls,
                   dlgVars, webVars>>

\* Mutant of Progress: reports i instead of i + 1.
ProgressOffByOne ==
    /\ pc = "progress"
    /\ progress_calls' = Append(progress_calls, i)
    /\ IF frontend = "desktop"
       THEN /\ after_queue' = Append(after_queue, <<"update", i>>)
            /\ task' = task
       ELSE /\ task' = Some([task[1] EXCEPT !.progress = i])
            /\ after_queue' = after_queue
    /\ i' = i + 1
    /\ pc' = "loop"
    /\ accesses' = IF frontend = "web"
                   THEN accesses \cup
                        {Access("run_export", "progress", "write", TRUE)}
                   ELSE accesses
    /\ UNCHANGED <<cfgVars, docVars, rendered, polls, exc, dialog_open,
                   dialog_cancelled, dialog_error, btn_cancel, progress_var,
                   error_box, outcome, cancel_req, status_resp, download_resp>>

\* Mutant of Progress: the web callback marks the task "done" as soon as
\* the last row is reported, before export_pdf has saved and returned.
ProgressMarksDone ==
    /\ pc = "progress"
    /\ progress_calls' = Append(progress_calls, i + 1)
    /\ IF frontend = "desktop"
       THEN /\ after_queue' = Append(after_queue, <<"update", i + 1>>)
            /\ task' = task
       ELSE /\ task' = Some([task[1] EXCEPT
                               !.progress = i + 1,
                               !.status = IF i + 1 = total_rows
                                          THEN "done" ELSE @])
            /\ after_queue' = after_queue
    /\ i' = i + 1
    /\ pc' = "loop"
    /\ accesses' = IF frontend = "web"
                   THEN accesses \cup
                        {Access("run_export", "progress", "write", TRUE)}
                   ELSE accesses
    /\ UNCHANGED <<cfgVars, docVars, rendered, polls, exc, dialog_open,
                   dialog_cancelled, dialog_error, btn_cancel, progress_var,
                   error_box, outcome, cancel_req, status_resp, download_resp>>

\* Mutant of Progress: the loop variable advances by two.
ProgressSkipsRow ==
    /\ pc = "progress"
    /\ progress_calls' = Append(progress_calls, i + 1)
    /\ IF frontend = "desktop"
       THEN /\ after_queue' = Append(after_queue, <<"update", i + 1>>)
            /\ task' = task
       ELSE /\ task' = Some([task[1] EXCEPT !.progress = i + 1])
            /\ after_queue' = after_queue
    /\ i' = i + 2
    /\ pc' = "loop"
    /\ accesses' = IF frontend = "web"
                   THEN accesses \cup
                        {Access("run_export", "progress", "write", TRUE)}
                   ELSE accesses
    /\ UNCHANGED <<cfgVars, docVars, rendered, polls, exc, dialog_open,
                   dialog_cancelled, dialog_error, btn_cancel, progress_var,
                   error_box, outcome, cancel_req, status_resp, download_resp>>

\* on_progress(i + 1): the dialog schedules _update_ui on the Tk loop,
\* the web worker stores the count in the task under state.lock.
Progress ==
    /\ pc = "progress"
    /\ progress_calls' = Append(progress_calls, i + 1)
    /\ IF frontend = "desktop"
       THEN /\ after_queue' = Append(after_queue, <<"update", i + 1>>)
            /\ task' = task
       ELSE /\ task' = Some([task[1] EXCEPT !.progress = i + 1])
            /\ after_queue' = after_queue
    /\ i' = i + 1
    /\ pc' = "loop"
    /\ accesses' = IF frontend = "web"
                   THEN accesses \cup
                        {Access("run_export", "progress", "write", TRUE)}
                   ELSE accesses
    /\ UNCHANGED <<cfgVars, docVars, rendered, polls, exc, dialog_open,
                   dialog_cancelled, dialog_error, btn_cancel, progress_var,
                   error_box, outcome, cancel_req, status_resp, download_resp>>

\* Mutant of Save: the open page is dropped instead of being emitted.
SaveDropsOpenPage ==
    /\ pc = "save"
    /\ pages' = pages
    /\ page' = <<>>
    /\ \/ saved' = TRUE /\ pc' = "returned" /\ exc' = exc
       \/ \E m \in Messages : saved' = saved /\ pc' = "raised" /\ exc' = Raise(m)
    /\ UNCHANGED <<cfgVars, i, rendered, polls, progress_calls, dlgVars, webVars>>

\* c.save(): ReportLab emits the current page when it holds content, then
\* writes the document to output_path; the write may raise.
Save ==
    /\ pc = "save"
    /\ pages' = IF page # <<>> THEN Append(pages, page) ELSE pages
    /\ page' = <<>>
    /\ \/ saved' = TRUE /\ pc' = "returned" /\ exc' = exc
       \/ \E m \in Messages : saved' = saved /\ pc' = "raised" /\ exc' = Raise(m)
    /\ UNCHANGED <<cfgVars, i, rendered, polls, progress_calls, dlgVars, webVars>>

\* --------------------------------------------- the desktop progress dialog
\* Mutant of DialogRunExportExit: _finish is scheduled after the call
\* returned only, not in a finally clause.
DialogRunExportExitNoFinally ==
    /\ frontend = "desktop"
    /\ pc \in {"returned", "raised"}
    /\ dialog_error' = IF pc = "raised" THEN Some(str(exc)) ELSE dialog_error
    /\ after_queue' = IF pc = "returned"
                      THEN Append(after_queue, <<"finish">>)
                      ELSE after_queue
    /\ pc' = "exited"
    /\ UNCHANGED <<cfgVars, i, docVars, rendered, polls, progress_calls, exc,
                   dialog_open, dialog_cancelled, btn_cancel, progress_var,
                   error_box, outcome, cancel_req, webVars>>

\* ExportProgressDialog._run_export: except stores str(e), finally
\* schedules _finish.
DialogRunExportExit ==
    /\ frontend = "desktop"
    /\ pc \in {"returned", "raised"}
    /\ dialog_error' = IF pc = "raised" THEN Some(str(exc)) ELSE dialog_error
    /\ after_queue' = Append(after_queue, <<"finish">>)
    /\ pc' = "exited"
    /\ UNCHANGED <<cfgVars, i, docVars, rendered, polls, progress_calls, exc,
                   dialog_open, dialog_cancelled, btn_cancel, progress_var,
                   error_box, outcome, cancel_req, webVars>>

\* ExportProgressDialog._cancel, the Cancel button's command.
Cancel ==
    /\ frontend = "desktop"
    /\ dialog_open
    /\ btn_cancel = "normal"
    /\ dialog_cancelled' = TRUE
    /\ btn_cancel' = "disabled"
    /\ cancel_req' = Some([pc |-> pc, i |-> i])
    /\ UNCHANGED <<cfgVars, pc, i, docVars, rendered, polls, progress_calls,
                   exc, dialog_open, dialog_error, progress_var, after_queue,
                   error_box, outcome, webVars>>

\* ExportProgressDialog._update_ui, run by the Tk loop.
UpdateUi ==
    /\ dialog_open
    /\ after_queue # <<>>
    /\ Head(after_queue)[1] = "update"
    /\ progress_var' = Head(after_queue)[2]
    /\ after_queue' = Tail(after_queue)
    /\ UNCHANGED <<cfgVars, pc, i, docVars, rendered, polls, progress_calls,
                   exc, dialog_open, dialog_cancelled, dialog_error,
                   btn_cancel, error_box, outcome, cancel_req, webVars>>

\* ExportProgressDialog._finish, run by the Tk loop.
Finish ==
    /\ dialog_open
    /\ after_queue # <<>>
    /\ Head(after_queue)[1] = "finish"
    /\ error_box' = IF Truthy(dialog_error) THEN dialog_error ELSE error_box
    /\ dialog_open' = FALSE
    /\ after_queue' = Tail(after_queue)
    /\ UNCHANGED <<cfgVars, pc, i, docVars, rendered, polls, progress_calls,
                   exc, dialog_cancelled, dialog_error, btn_cancel,
                   progress_var, outcome, cancel_req, webVars>>

\* MainWindow._export_pdf after wait_window(dialog) returns.
ExportPdfReport ==
    /\ frontend = "desktop"
    /\ pc = "exited"
    /\ ~dialog_open
    /\ outcome = "none"
    /\ outcome' = IF Truthy(dialog_error) THEN "error"
                  ELSE IF dialog_cancelled THEN "cancelled"
                  ELSE "done"
    /\ UNCHANGED <<cfgVars, pc, i, docVars, rendered, polls, progress_calls,
                   exc, dialog_open, dialog_cancelled, dialog_error,
                   btn_cancel, progress_var, after_queue, error_box,
                   cancel_req, webVars>>

\* ------------------------------------------------------- the web worker
\* run_export after export_pdf: status "done", or "error" with str(e).
WebRunExportExit ==
    /\ frontend = "web"
    /\ pc \in {"returned", "raised"}
    /\ task' = IF pc = "returned"
               THEN Some([task[1] EXCEPT !.status = "done"])
               ELSE Some([task[1] EXCEPT !.status = "error",
                                         !.error = Some(str(exc))])
    /\ pc' = "exited"
    /\ accesses' = accesses \cup
          ({Access("run_export", "status", "write", TRUE)} \cup
           IF pc = "raised"
           THEN {Access("run_export", "error", "write", TRUE)} ELSE {})
    /\ UNCHANGED <<cfgVars, i, docVars, rendered, polls, progress_calls, exc,
                   dlgVars, status_resp, download_resp>>

\* GET /api/export-pdf/status/<task_id>
pdf_export_status ==
    /\ frontend = "web"
    /\ status_resp' = IF task = None
                      THEN Some([code |-> 404, status |-> "", progress |-> 0,
                                 total |-> 0, error |-> Some("Unknown task")])
                      ELSE Some([code |-> 200, status |-> task[1].status,
                                 progress |-> task[1].progress,
                                 total |-> task[1].total,
                                 error |-> task[1].error])
    /\ status_resp' # status_resp
    /\ accesses' = accesses \cup
          {Access("pdf_export_status", w, "read", TRUE) :
              w \in IF task = None THEN {"export_tasks"}
                    ELSE {"export_tasks", "status", "progress", "error"}}
    /\ UNCHANGED <<cfgVars, pc, i, docVars, rendered, polls, progress_calls,
                   exc, dlgVars, task, download_resp>>

\* Mutant of download_pdf: the file is served for any registered task.
download_pdf_any_status ==
    /\ frontend = "web"
    /\ download_resp' = IF task = None THEN "400" ELSE "file"
    /\ download_resp' # download_resp
    /\ accesses' = accesses \cup
          {Access("download_pdf", w, "read", FALSE) :
              w \in IF task = None THEN {"export_tasks"}
                    ELSE {"export_tasks", "status"}}
    /\ UNCHANGED <<cfgVars, pc, i, docVars, rendered, polls, progress_calls,
                   exc, dlgVars, task, status_resp>>

\* GET /api/export-pdf/download/<task_id>
download_pdf ==
    /\ frontend = "web"
    /\ download_resp' = IF task = None \/ task[1].status # "done"
                        THEN "400" ELSE "file"
    /\ download_resp' # download_resp
    /\ accesses' = accesses \cup
          {Access("download_pdf", w, "read", FALSE) :
              w \in IF task = None THEN {"export_tasks"}
                    ELSE {"export_tasks", "status"}}
    /\ UNCHANGED <<cfgVars, pc, i, docVars, rendered, polls, progress_calls,
                   exc, dlgVars, task, status_resp>>

Next ==
    \/ MainWindowExportPdf
    \/ start_pdf_export
    \/ LoopHead
    \/ Render
    \/ Place
    \/ Progress
    \/ Save
    \/ DialogRunExportExit
    \/ Cancel
    \/ UpdateUi
    \/ Finish
    \/ ExportPdfReport
    \/ WebRunExportExit
    \/ pdf_export_status
    \/ download_pdf

Spec == Init /\ [][Next]_vars


\* ====================================================== rendering a badge
\* Texts are sequences of characters; "" is <<>>.
Texts == {<<"A">>, <<"A", "B", "C">>}

\* A FieldPlacement: the attributes _draw_field reads.
FieldPlacement(column, size, width, xpos) ==
    [csv_column |-> column, font_size |-> size, max_width |-> width,
     x |-> xpos]

\* The field lists rendered: a field whose column, size and width limit vary,
\* and a second field with no width limit.
FieldLists ==
    { << FieldPlacement(c, s, w, 100), FieldPlacement("Title", 10, 0, 200) >> :
        c \in {"Name", "Nick"}, s \in 1..MaxFontSize,
        w \in {10 * k : k \in 0..MaxWidthTens} }

\* The CSV data rendered: no rows, or two rows of which the second has no
\* "Title" column; no row has a "Nick" column.
CsvRows ==
    {<<>>} \cup
    { << [Name |-> t, Title |-> <<"T">>], [Name |-> <<"Z", "Z">>] >> :
        t \in Texts }

\* The background image its caller loads once and passes to every
\* render_badge call.
SharedBackground == Image(<<2100, 1200>>, "background")

InitRender ==
    /\ frontend = "desktop"
    /\ cols = 1
    /\ rows = 1
    /\ total_rows = 0
    /\ ExportIdle
    /\ fields \in FieldLists
    /\ csv_rows \in CsvRows
    /\ font_found \in BOOLEAN
    /\ background \in {None, Some(SharedBackground)}
    /\ rpc = "idle"
    /\ row_index = 0
    /\ badge = Image(<<DefaultBadgeWidth, DefaultBadgeHeight>>, "white")
    /\ result = None
    /\ fidx = 0
    /\ text = <<>>
    /\ font = [kind |-> "default", size |-> 0]
    /\ effective_size = 0
    /\ text_width = 0
    /\ n_shrinks = 0
    /\ render_exc = None
    /\ fp_before = fields
    /\ drawn_log = {}
    /\ SessionIdle
    /\ EditorIdle

Max(a, b) == IF a >= b THEN a ELSE b
Min(a, b) == IF a <= b THEN a ELSE b

\* The outcome of a call: a returned value or an exception.
Returns(v) == [raised |-> None, value |-> v]
Throws(e) == [raised |-> Some(e), value |-> <<>>]

\* CSVData.get_value without the range test: Python indexes a list from its
\* end for a negative index and raises IndexError outside -len..len-1.
get_value_unchecked(r, column) ==
    IF r >= Len(csv_rows) \/ r < 0 - Len(csv_rows)
    THEN Throws("IndexError")
    ELSE LET row == csv_rows[(r % Len(csv_rows)) + 1] IN
         Returns(IF column \in DOMAIN row THEN row[column] ELSE <<>>)

\* CSVData.get_value(row_index, column).
get_value(r, column) ==
    IF 0 <= r /\ r < Len(csv_rows)
    THEN LET row == csv_rows[r + 1] IN
         Returns(IF column \in DOMAIN row THEN row[column] ELSE <<>>)
    ELSE Returns(<<>>)

\* _load_font(fp, size_override): a TrueType font of the size asked for, or
\* PIL's built-in bitmap font, which has one size only.  size_override is 0
\* for the default None; both are false for "or".
_load_font(fp, size_override) ==
    LET size == IF size_override # 0 THEN size_override ELSE fp.font_size IN
    IF font_found
    THEN [kind |-> "truetype", size |-> size]
    ELSE [kind |-> "default", size |-> 0]

\* draw.textbbox((0, 0), text, font=font): the width of the text.
textbbox(t, f) ==
    IF f.kind = "truetype" THEN Len(t) * f.size ELSE Len(t) * DefaultCharWidth

\* render_badge(config, csv_data, row_index, background), up to its loop:
\* the image to draw on is a resized copy of the background, or blank.
render_badge ==
    /\ rpc \in {"idle", "returned", "raised"}
    /\ \E r \in (0 - 1)..Len(csv_rows) : row_index' = r
    /\ badge' =
          IF background # None
          THEN [background[1] EXCEPT
                   !.size = <<DefaultBadgeWidth, DefaultBadgeHeight>>]
          ELSE Image(<<DefaultBadgeWidth, DefaultBadgeHeight>>, "white")
    /\ fidx' = 1
    /\ rpc' = "for"
    /\ render_exc' = None
    /\ fp_before' = fields
    /\ UNCHANGED <<exportVars, sessionVars, editorVars, fields, csv_rows, font_found, background,
                   result, text, font, effective_size, text_width, n_shrinks,
                   drawn_log>>

\* The loop over config.fields is exhausted: return badge.
ReturnBadge ==
    /\ rpc = "for"
    /\ fidx > Len(fields)
    /\ result' = Some(badge)
    /\ rpc' = "returned"
    /\ UNCHANGED <<exportVars, sessionVars, editorVars, fields, csv_rows, font_found, background,
                   row_index, badge, fidx, text, font, effective_size,
                   text_width, n_shrinks, render_exc, fp_before, drawn_log>>

\* One pass of the loop: get_value, then _draw_field up to its while loop.
DrawField ==
    /\ rpc = "for"
    /\ fidx <= Len(fields)
    /\ LET fp == fields[fidx]
           got == get_value(row_index, fp.csv_column)
       IN
       IF got.raised # None
       THEN /\ render_exc' = got.raised
            /\ rpc' = "raised"
            /\ UNCHANGED <<fidx, text, font, effective_size, text_width,
                           n_shrinks>>
       ELSE IF got.value = <<>>
       THEN /\ fidx' = fidx + 1
            /\ text' = got.value
            /\ UNCHANGED <<rpc, font, effective_size, text_width, n_shrinks,
                           render_exc>>
       ELSE /\ text' = got.value
            /\ font' = _load_font(fp, 0)
            /\ effective_size' = fp.font_size
            /\ n_shrinks' = 0
            /\ IF fp.max_width > 0
               THEN /\ text_width' = textbbox(got.value, font')
                    /\ rpc' = "while"
               ELSE /\ text_width' = 0
                    /\ rpc' = "draw"
            /\ UNCHANGED <<fidx, render_exc>>
    /\ UNCHANGED <<exportVars, sessionVars, editorVars, fields, csv_rows, font_found, background,
                   row_index, badge, result, fp_before, drawn_log>>

\* The auto-shrink loop with a floor of 1 in place of 8.
ShrinkStepFloorOne ==
    /\ rpc = "while"
    /\ LET fp == fields[fidx] IN
       IF text_width > fp.max_width /\ effective_size > 1
       THEN /\ effective_size' = effective_size - 1
            /\ font' = _load_font(fp, effective_size')
            /\ text_width' = textbbox(text, font')
            /\ n_shrinks' = n_shrinks + 1
            /\ UNCHANGED rpc
       ELSE /\ rpc' = "draw"
            /\ UNCHANGED <<effective_size, font, text_width, n_shrinks>>
    /\ UNCHANGED <<exportVars, sessionVars, editorVars, fields, csv_rows, font_found, background,
                   row_index, badge, result, fidx, text, render_exc,
                   fp_before, drawn_log>>

\* The auto-shrink loop stepping down two points at a time.
ShrinkStepByTwo ==
    /\ rpc = "while"
    /\ LET fp == fields[fidx] IN
       IF text_width > fp.max_width /\ effective_size > ShrinkFloor
       THEN /\ effective_size' = Max(effective_size - 2, ShrinkFloor)
            /\ font' = _load_font(fp, effective_size')
            /\ text_width' = textbbox(text, font')
            /\ n_shrinks' = n_shrinks + 1
            /\ UNCHANGED rpc
       ELSE /\ rpc' = "draw"
            /\ UNCHANGED <<effective_size, font, text_width, n_shrinks>>
    /\ UNCHANGED <<exportVars, sessionVars, editorVars, fields, csv_rows, font_found, background,
                   row_index, badge, result, fidx, text, render_exc,
                   fp_before, drawn_log>>

\* The auto-shrink loop storing the reduced size in the FieldPlacement.
ShrinkStepWritesField ==
    /\ rpc = "while"
    /\ LET fp == fields[fidx] IN
       IF text_width > fp.max_width /\ effective_size > ShrinkFloor
       THEN /\ effective_size' = effective_size - 1
            /\ fields' = [fields EXCEPT ![fidx].font_size = effective_size']
            /\ font' = _load_font(fp, effective_size')
            /\ text_width' = textbbox(text, font')
            /\ n_shrinks' = n_shrinks + 1
            /\ UNCHANGED rpc
       ELSE /\ rpc' = "draw"
            /\ UNCHANGED <<effective_size, font, text_width, n_shrinks,
                           fields>>
    /\ UNCHANGED <<exportVars, sessionVars, editorVars, csv_rows, font_found, background,
                   row_index, badge, result, fidx, text, render_exc,
                   fp_before, drawn_log>>

\* The while test of the auto-shrink loop and, when it holds, its body.
ShrinkStep ==
    /\ rpc = "while"
    /\ LET fp == fields[fidx] IN
       IF text_width > fp.max_width /\ effective_size > ShrinkFloor
       THEN /\ effective_size' = effective_size - 1
            /\ font' = _load_font(fp, effective_size')
            /\ text_width' = textbbox(text, font')
            /\ n_shrinks' = n_shrinks + 1
            /\ UNCHANGED rpc
       ELSE /\ rpc' = "draw"
            /\ UNCHANGED <<effective_size, font, text_width, n_shrinks>>
    /\ UNCHANGED <<exportVars, sessionVars, editorVars, fields, csv_rows, font_found, background,
                   row_index, badge, result, fidx, text, render_exc,
                   fp_before, drawn_log>>

\* draw.text on an image that is the background itself, not a copy of it.
DrawTextOnShared ==
    /\ rpc = "draw"
    /\ LET op == [row |-> row_index, field |-> fidx, text |-> text,
                  size |-> effective_size, x |-> fields[fidx].x]
       IN
       /\ badge' = [badge EXCEPT !.drawn = Append(@, op)]
       /\ background' =
             IF background = None THEN None
             ELSE Some([background[1] EXCEPT !.drawn = Append(@, op)])
    /\ drawn_log' = drawn_log \cup
          {[row |-> row_index, field |-> fidx, size |-> effective_size]}
    /\ fidx' = fidx + 1
    /\ rpc' = "for"
    /\ UNCHANGED <<exportVars, sessionVars, editorVars, fields, csv_rows, font_found,
                   row_index, result, text, font, effective_size, text_width,
                   n_shrinks, render_exc, fp_before>>

\* draw.text((fp.x, fp.y), text, font=font) on the badge, and the return
\* to the loop over the fields.
DrawText ==
    /\ rpc = "draw"
    /\ badge' = [badge EXCEPT !.drawn =
                    Append(@, [row |-> row_index, field |-> fidx,
                               text |-> text, size |-> effective_size,
                               x |-> fields[fidx].x])]
    /\ drawn_log' = drawn_log \cup
          {[row |-> row_index, field |-> fidx, size |-> effective_size]}
    /\ fidx' = fidx + 1
    /\ rpc' = "for"
    /\ UNCHANGED <<exportVars, sessionVars, editorVars, fields, csv_rows, font_found, background,
                   row_index, result, text, font, effective_size, text_width,
                   n_shrinks, render_exc, fp_before>>

NextRender ==
    \/ render_badge
    \/ ReturnBadge
    \/ DrawField
    \/ ShrinkStep
    \/ DrawText

SpecRender == InitRender /\ [][NextRender]_vars


\* ================================================ editing session, layout
ConfigKeys ==
    {"badge_width", "badge_height", "badges_per_row", "badges_per_col",
     "page_size", "margin_mm", "spacing_mm"}

\* The values a template file or a PUT /api/config body gives to a key.
\* Neither reader validates them.
JsonValues(key) ==
    CASE key = "badge_width" -> {0, 300, 612, 1050}
      [] key = "badge_height" -> {0 - 1, 20, 600, 792}
      [] key = "badges_per_row" -> 0..MaxCols
      [] key = "badges_per_col" -> 0..MaxGridRows
      [] key = "page_size" -> {"letter", "A4"}
      [] key = "margin_mm" -> {Whole(0), Whole(10), Points(236), Points(300)}
      [] key = "spacing_mm" -> {Whole(0), Whole(2), Points(191)}

\* The JSON objects read: {} and the objects with one of the keys.
JsonDocs ==
    {<<>>} \cup UNION { { key :> v : v \in JsonValues(key) } : key \in ConfigKeys }

\* The sizes of the images opened as backgrounds.
ImageSizes == { <<1050, 600>>, <<612, 792>>, <<300, 20>> }

\* BadgeConfig.from_dict(d): the keys of d that are fields, defaults for
\* the others.
from_dict(d) ==
    [key \in ConfigKeys |->
        IF key \in DOMAIN d THEN d[key] ELSE DefaultConfig[key]]

InitSession ==
    /\ frontend \in {"desktop", "web"}
    /\ cols = 1
    /\ rows = 1
    /\ total_rows = 0
    /\ ExportIdle
    /\ RenderIdle
    /\ config = DefaultConfig
    /\ layout = NoLayout
    /\ EditorIdle

\* The part of CanvasEditor.refresh that sets the editor's state, run on
\* template c and field positions xy.
RefreshWith(c, xy) ==
    LET r == Refreshed(c, canvas_size, xy) IN
    /\ _scale' = r.scale
    /\ _offset_x' = r.offset_x
    /\ _offset_y' = r.offset_y
    /\ item_coords' = r.items
    /\ scale_args' = r.args

\* MainWindow._open_bg_image, the image opened: the badge takes its size
\* and canvas_editor.set_background refreshes the canvas.
_open_bg_image ==
    /\ frontend = "desktop"
    /\ \E size \in ImageSizes :
          config' = [config EXCEPT !.badge_width = size[1],
                                   !.badge_height = size[2]]
    /\ layout' = NoLayout
    /\ RefreshWith(config', field_xy)
    /\ UNCHANGED <<exportVars, renderVars, canvas_size, field_xy,
                   _drag_field_idx, _drag_start_x, _drag_start_y,
                   button_down, released>>

\* MainWindow._load_template, the file loaded: every dimension and PDF
\* option is copied from the loaded BadgeConfig.
_load_template ==
    /\ frontend = "desktop"
    /\ \E d \in JsonDocs :
          LET loaded == from_dict(d) IN
          config' = [config EXCEPT
                        !.badge_width = loaded.badge_width,
                        !.badge_height = loaded.badge_height,
                        !.badges_per_row = loaded.badges_per_row,
                        !.badges_per_col = loaded.badges_per_col,
                        !.page_size = loaded.page_size,
                        !.margin_mm = loaded.margin_mm,
                        !.spacing_mm = loaded.spacing_mm]
    /\ layout' = NoLayout
    /\ field_xy' = <<>>
    /\ RefreshWith(config', field_xy')
    /\ UNCHANGED <<exportVars, renderVars, canvas_size,
                   _drag_field_idx, _drag_start_x, _drag_start_y,
                   button_down, released>>

\* POST /api/upload-image, the image accepted.
upload_image ==
    /\ frontend = "web"
    /\ \E size \in ImageSizes :
          config' = [config EXCEPT !.badge_width = size[1],
                                   !.badge_height = size[2]]
    /\ layout' = NoLayout
    /\ UNCHANGED <<exportVars, renderVars, editorVars>>

\* POST /api/upload-template, the JSON parsed.
upload_template ==
    /\ frontend = "web"
    /\ \E d \in JsonDocs : config' = from_dict(d)
    /\ layout' = NoLayout
    /\ UNCHANGED <<exportVars, renderVars, editorVars>>

\* PUT /api/config: setattr for each of the keys present in the body.
update_config ==
    /\ frontend = "web"
    /\ \E data \in JsonDocs :
          config' = [key \in ConfigKeys |->
                        IF key \in DOMAIN data THEN data[key] ELSE config[key]]
    /\ layout' = NoLayout
    /\ UNCHANGED <<exportVars, renderVars, editorVars>>

\* _get_page_size(name): the page's width and height in points.
_get_page_size(name) ==
    IF name = "A4"
    THEN <<Times(Whole(210), mm), Times(Whole(297), mm)>>
    ELSE <<Whole(612), Whole(792)>>

\* export_pdf left with an exception before it drew anything.
LayoutRaised(e) == [NoLayout EXCEPT !.status = e]

\* The layout computed at the head of export_pdf from the template c.
ComputeLayout(c) ==
    LET page_w == _get_page_size(c.page_size)[1]
        page_h == _get_page_size(c.page_size)[2]
        margin == Times(c.margin_mm, mm)
        spacing == Times(c.spacing_mm, mm)
        usable_w == Minus(page_w, Times(Whole(2), margin))
        usable_h == Minus(page_h, Times(Whole(2), margin))
        ncols == c.badges_per_row
        nrows == c.badges_per_col
    IN
    IF ncols = 0 \/ nrows = 0 THEN LayoutRaised("ZeroDivisionError")
    ELSE
    LET cell_w == Over(Minus(usable_w, Times(Whole(ncols - 1), spacing)),
                       Whole(ncols))
        cell_h == Over(Minus(usable_h, Times(Whole(nrows - 1), spacing)),
                       Whole(nrows))
        badge_aspect == Over(Whole(c.badge_width),
                             MaxOf(Whole(c.badge_height), Whole(1)))
        cell_aspect == Over(cell_w, MaxOf(cell_h, Whole(1)))
    IN
    IF Less(cell_aspect, badge_aspect)
    THEN IF badge_aspect = Whole(0) THEN LayoutRaised("ZeroDivisionError")
         ELSE [status |-> "ok", cell_w |-> cell_w, cell_h |-> cell_h,
               draw_w |-> cell_w, draw_h |-> Over(cell_w, badge_aspect)]
    ELSE [status |-> "ok", cell_w |-> cell_w, cell_h |-> cell_h,
          draw_h |-> cell_h, draw_w |-> Times(cell_h, badge_aspect)]

\* An export of the session's template gets as far as its layout.
ExportLayout ==
    /\ layout = NoLayout
    /\ layout' = ComputeLayout(config)
    /\ UNCHANGED <<exportVars, renderVars, editorVars, config>>

NextSession ==
    \/ _open_bg_image
    \/ _load_template
    \/ upload_image
    \/ upload_template
    \/ update_config
    \/ ExportLayout

SpecSession == InitSession /\ [][NextSession]_vars


\* ======================================================= the canvas editor
\* The templates edited: the default one, one with the size of an opened
\* image, and one loaded from a file that gives a height of -1.
EditorConfigs ==
    { DefaultConfig,
      [DefaultConfig EXCEPT !.badge_width = 300, !.badge_height = 20],
      from_dict("badge_height" :> 0 - 1) }

\* The sizes the canvas widget takes, down to a pane 20 pixels wide.
CanvasSizes == { <<700, 500>>, <<20, 500>> }

\* Where the pointer is dragged to, inside and outside the canvas.
PointerSet == { <<0 - 40, 0 - 30>>, <<350, 250>>, <<3000, 2000>> }

\* The editor shows a template with two fields placed, refreshed once.
InitEditor ==
    /\ frontend = "desktop"
    /\ cols = 1
    /\ rows = 1
    /\ total_rows = 0
    /\ ExportIdle
    /\ RenderIdle
    /\ config \in EditorConfigs
    /\ layout = NoLayout
    /\ canvas_size \in CanvasSizes
    /\ field_xy = << <<Whole(100), Whole(50)>>, <<Whole(525), Whole(300)>> >>
    /\ LET r == Refreshed(config, canvas_size, field_xy) IN
       /\ _scale = r.scale
       /\ _offset_x = r.offset_x
       /\ _offset_y = r.offset_y
       /\ item_coords = r.items
       /\ scale_args = r.args
    /\ _drag_field_idx = None
    /\ _drag_start_x = 0
    /\ _drag_start_y = 0
    /\ button_down = FALSE
    /\ released = None

\* The canvas widget is resized; _on_canvas_resize schedules a refresh.
_on_canvas_resize ==
    /\ \E size \in CanvasSizes : size # canvas_size /\ canvas_size' = size
    /\ UNCHANGED <<exportVars, renderVars, sessionVars, _scale, _offset_x,
                   _offset_y, field_xy, item_coords, _drag_field_idx,
                   _drag_start_x, _drag_start_y, button_down, scale_args,
                   released>>

\* CanvasEditor.refresh
refresh ==
    /\ RefreshWith(config, field_xy)
    /\ UNCHANGED <<exportVars, renderVars, sessionVars, canvas_size,
                   field_xy, _drag_field_idx, _drag_start_x, _drag_start_y,
                   button_down, released>>

\* The number of drag releases so far; the session modelled ends after
\* MaxReleases of them.
ReleaseCount == IF released = None THEN 0 ELSE released[1].n

\* Python's floor of a fraction, for the pointer's integer coordinates.
Floor(q) == q.n \div q.d

\* CanvasEditor._on_press: the pointer is on the item of field k (fields
\* are numbered from 1 here), or on no field item (k = 0).
_on_press ==
    /\ ~button_down
    /\ ReleaseCount < MaxReleases
    /\ button_down' = TRUE
    /\ \E k \in 0..Len(field_xy) :
          IF k = 0
          THEN /\ _drag_field_idx' = None
               /\ UNCHANGED <<_drag_start_x, _drag_start_y>>
          ELSE /\ _drag_field_idx' = Some(k)
               /\ _drag_start_x' = Floor(item_coords[k][1])
               /\ _drag_start_y' = Floor(item_coords[k][2])
    /\ UNCHANGED <<exportVars, renderVars, sessionVars, canvas_size, _scale,
                   _offset_x, _offset_y, field_xy, item_coords, scale_args,
                   released>>

\* CanvasEditor._on_drag: the item follows the pointer.
_on_drag ==
    /\ button_down
    /\ _drag_field_idx # None
    /\ \E event \in PointerSet :
          LET k == _drag_field_idx[1]
              dx == event[1] - _drag_start_x
              dy == event[2] - _drag_start_y
          IN
          /\ item_coords' = [item_coords EXCEPT
                                ![k] = <<Plus(@[1], Whole(dx)),
                                         Plus(@[2], Whole(dy))>>]
          /\ _drag_start_x' = event[1]
          /\ _drag_start_y' = event[2]
    /\ UNCHANGED <<exportVars, renderVars, sessionVars, canvas_size, _scale,
                   _offset_x, _offset_y, field_xy, _drag_field_idx,
                   button_down, scale_args, released>>

\* CanvasEditor._on_release storing the converted position unclamped.
_on_release_unclamped ==
    /\ button_down
    /\ button_down' = FALSE
    /\ IF _drag_field_idx = None
       THEN UNCHANGED <<field_xy, _drag_field_idx, released>>
       ELSE LET k == _drag_field_idx[1]
                at == canvas_to_image(item_coords[k][1], item_coords[k][2],
                                      _scale, _offset_x, _offset_y)
            IN
            /\ field_xy' = [field_xy EXCEPT ![k] = <<RoundTenth(at[1]), RoundTenth(at[2])>>]
            /\ _drag_field_idx' = None
            /\ released' = Some([n |-> ReleaseCount + 1,
                                 idx |-> k, before |-> field_xy,
                                 after |-> field_xy',
                                 drag |-> _drag_field_idx',
                                 badge_width |-> config.badge_width,
                                 badge_height |-> config.badge_height])
    /\ UNCHANGED <<exportVars, renderVars, sessionVars, canvas_size, _scale,
                   _offset_x, _offset_y, item_coords, _drag_start_x,
                   _drag_start_y, scale_args>>

\* CanvasEditor._on_release: the item's canvas position is converted,
\* clamped to the badge, rounded and stored in the field.
_on_release ==
    /\ button_down
    /\ button_down' = FALSE
    /\ IF _drag_field_idx = None
       THEN UNCHANGED <<field_xy, _drag_field_idx, released>>
       ELSE LET k == _drag_field_idx[1]
                at == canvas_to_image(item_coords[k][1], item_coords[k][2],
                                      _scale, _offset_x, _offset_y)
                ix == MaxOf(Whole(0), MinOf(at[1], Whole(config.badge_width)))
                iy == MaxOf(Whole(0), MinOf(at[2], Whole(config.badge_height)))
            IN
            /\ field_xy' = [field_xy EXCEPT ![k] = <<RoundTenth(ix), RoundTenth(iy)>>]
            /\ _drag_field_idx' = None
            /\ released' = Some([n |-> ReleaseCount + 1,
                                 idx |-> k, before |-> field_xy,
                                 after |-> field_xy',
                                 drag |-> _drag_field_idx',
                                 badge_width |-> config.badge_width,
                                 badge_height |-> config.badge_height])
    /\ UNCHANGED <<exportVars, renderVars, sessionVars, canvas_size, _scale,
                   _offset_x, _offset_y, item_coords, _drag_start_x,
                   _drag_start_y, scale_args>>

NextEditor ==
    \/ _on_canvas_resize
    \/ refresh
    \/ _on_press
    \/ _on_drag
    \/ _on_release

SpecEditor == InitEditor /\ [][NextEditor]_vars

\* ============================================================ properties
RECURSIVE Concat(_)
Concat(ss) == IF ss = <<>> THEN <<>> ELSE Head(ss) \o Concat(Tail(ss))

\* Every badge drawn so far, in drawing order.
Badges == Concat(pages) \o page

NumPlaced == Len(Badges)

\* The last is_cancelled() call returned true: the loop was left by break.
Broke == polls # <<>> /\ polls[Len(polls)].result

Ceil(a, b) == (a + b - 1) \div b

\* C1: in a run where is_cancelled never returns true and nothing raises,
\* on_progress is called exactly N times with 1, 2, ..., N: one call per
\* row, after that row's badge is placed and before the next row's
\* cancellation check, never batched and never skipped.
ProgressOncePerRow ==
    /\ \A k \in 1..Len(progress_calls) : progress_calls[k] = k
    /\ Len(progress_calls) <= NumPlaced
    /\ NumPlaced <= Len(progress_calls) + 1
    /\ pc = "loop" => Len(progress_calls) = i /\ NumPlaced = i
    /\ is_cancelled_given => Len(polls) <= Len(progress_calls) + 1
    /\ (pc \in {"returned", "exited"} /\ exc = None /\ ~Broke)
          => Len(progress_calls) = total_rows

ProgressOncePerRowWitness ==
    /\ pc = "returned"
    /\ exc = None
    /\ ~Broke
    /\ total_rows >= 3
    /\ progress_calls = [k \in 1..total_rows |-> k]

\* C2: a cancellation requested after row k completed and before row k+1
\* starts leaves exactly k rows processed and the terminal status
\* Cancelled, for every 0 <= k < rowCount.
CancelAtBoundaryEndsCancelled ==
    (/\ frontend = "desktop"
     /\ cancel_req # None
     /\ cancel_req[1].pc = "loop"
     /\ cancel_req[1].i < total_rows
     /\ outcome # "none")
       => LET k == cancel_req[1].i IN
          /\ rendered = [n \in 1..k |-> n - 1]
          /\ NumPlaced = k
          /\ progress_calls = [n \in 1..k |-> n]
          /\ outcome = "cancelled"

\* C3: a web task starts as "running", changes status at most once, and
\* once "done" or "error" its status, progress and error never change.
WebStatusFinal ==
    [][frontend = "web" =>
         /\ (task = None /\ task' # None) => task'[1].status = "running"
         /\ task # None =>
              /\ task' # None
              /\ task[1].status \in {"running", "done", "error"}
              /\ task[1].status \in {"done", "error"} => task' = task]_vars

WebStatusFinalWitness ==
    /\ task # None
    /\ task[1].status = "error"
    /\ task[1].progress >= 2
    /\ status_resp = Some([code |-> 200, status |-> "error",
                           progress |-> task[1].progress,
                           total |-> task[1].total, error |-> task[1].error])
    /\ download_resp = "400"

\* C4: an exception while rendering or writing a row, whatever its message,
\* stops processing (no later row, no on_progress for that row), does not
\* escape the worker, and ends the export as Error with the message
\* captured, never Done.
ExceptionEndsAsError ==
    (exc # None /\ exc[1].at \in {"render", "place"}) =>
       /\ pc \in {"raised", "exited"}
       /\ i = exc[1].row
       /\ Len(progress_calls) = i
       /\ Len(rendered) = i + 1
       /\ (frontend = "desktop" /\ outcome # "none")
             => outcome = "error" /\ dialog_error = Some(str(exc))
       /\ (frontend = "web" /\ pc = "exited")
             => task[1].status = "error" /\ task[1].error = Some(str(exc))

\* C5: when every row was rendered and placed and nothing raised, the
\* terminal status is Done, for the web task and for the desktop dialog
\* (neither _cancelled nor _error set), whatever the user does meanwhile.
AllRowsPlacedEndsDone ==
    (total_rows >= 1 /\ NumPlaced = total_rows /\ exc = None /\ pc = "exited") =>
       /\ frontend = "web" => task[1].status = "done"
       /\ (frontend = "desktop" /\ outcome # "none")
             => outcome = "done" /\ ~dialog_cancelled /\ dialog_error = None

\* C6: a finished desktop export is exactly one of Done, Cancelled, Error;
\* a run stopped by the Cancel button ends Cancelled with _error None, and
\* no run ends with both the cancelled flag and an error message set.
DesktopOutcomeExclusive ==
    (frontend = "desktop" /\ outcome # "none") =>
       /\ outcome \in {"done", "cancelled", "error"}
       /\ Broke => outcome = "cancelled" /\ dialog_error = None
       /\ ~(dialog_cancelled /\ Truthy(dialog_error))

\* C7: cancellation is polled exactly once per row, before the row is
\* rendered; a request made while row i is rendered or placed does not
\* interrupt row i (it is placed and on_progress(i+1) is called) and row
\* i+1 is never rendered, so at most one further row completes.
CancelPolledOncePerRow ==
    is_cancelled_given =>
       /\ \A k \in 1..Len(polls) : polls[k].row = k - 1
       /\ Len(rendered) <= Len(polls)
       /\ \A k \in 1..Len(rendered) : rendered[k] = k - 1 /\ ~polls[k].result
       /\ pc \in {"render", "place", "progress"} => Len(polls) = i + 1
       /\ cancel_req # None => Len(progress_calls) <= cancel_req[1].i + 1
       /\ (cancel_req # None /\ cancel_req[1].pc \in {"render", "place", "progress"})
             => LET r == cancel_req[1].i IN
                /\ Len(rendered) <= r + 1
                /\ (exc = None /\ pc \in {"save", "returned", "exited"})
                      => /\ NumPlaced = r + 1
                         /\ progress_calls = [k \in 1..(r + 1) |-> k]
                         /\ (r + 1 < total_rows => Broke)

CancelPolledOncePerRowWitness ==
    /\ cancel_req # None
    /\ cancel_req[1].pc = "render"
    /\ cancel_req[1].i = 1
    /\ total_rows >= 4
    /\ pc = "returned"
    /\ NumPlaced = 2
    /\ progress_calls = <<1, 2>>
    /\ Broke

\* C8 as stated: once is_cancelled() has returned true, export_pdf writes
\* nothing more to the document: no badge is drawn and the current,
\* partially filled page is neither finalized nor emitted.
CancelWritesNothingMore ==
    [][(Broke /\ page # <<>>) => UNCHANGED <<pages, page, saved>>]_vars

\* C8 as amended: once is_cancelled() has returned true at row k, no
\* further row is rendered and no further badge is drawn; export_pdf goes
\* straight to c.save(), which emits the current, partially filled page
\* and writes the document holding exactly the k badges placed before.
CancelSavesPlacedBadges ==
    Broke =>
       LET k == polls[Len(polls)].row IN
       /\ pc \in {"save", "returned", "raised", "exited"}
       /\ rendered = [n \in 1..k |-> n - 1]
       /\ LET B == Badges IN
          [n \in 1..Len(B) |-> B[n].row] = [n \in 1..k |-> n - 1]
       /\ pc = "save" => ~saved
       /\ saved =>
            /\ page = <<>>
            /\ Len(Concat(pages)) = k
            /\ Len(pages) = Ceil(k, badges_per_page)

CancelSavesPlacedBadgesWitness ==
    /\ Broke
    /\ saved
    /\ polls[Len(polls)].row % badges_per_page # 0
    /\ polls[Len(polls)].row > badges_per_page
    /\ Len(pages[Len(pages)]) = polls[Len(polls)].row % badges_per_page

\* C9: a non-cancelled export of rowCount badges on a cols x rows grid
\* emits ceil(rowCount / (cols*rows)) pages, and badge i is drawn on page
\* i div (cols*rows), pages counted from 0 in emission order.
GridPackingCoverage ==
    /\ LET B == Badges IN
       \A n \in 1..Len(B) :
          /\ B[n].row = n - 1
          /\ B[n].page = (n - 1) \div (cols * rows)
    /\ \A p \in 1..Len(pages) : \A n \in 1..Len(pages[p]) : pages[p][n].page = p - 1
    /\ \A n \in 1..Len(page) : page[n].page = Len(pages)
    /\ (pc \in {"returned", "exited"} /\ exc = None /\ ~Broke)
          => Len(pages) = Ceil(total_rows, cols * rows)

GridPackingCoverageWitness ==
    /\ pc = "returned"
    /\ ~Broke
    /\ total_rows > 2 * cols * rows
    /\ total_rows % (cols * rows) # 0
    /\ Len(pages) = 3

\* C10: badge i is placed in column (i mod badgesPerPage) mod cols and
\* rowOnPage (i mod badgesPerPage) div cols, inside the grid, no two
\* badges share a (page, col, rowOnPage) cell; with cols=2, rows=4 and 10
\* rows badge 7 is at page 0, col 1, rowOnPage 3 and badge 8 at page 1,
\* col 0, rowOnPage 0.
CellPlacement ==
    LET B == Badges IN
    /\ \A n \in 1..Len(B) :
          /\ B[n].row = n - 1
          /\ B[n].col = (B[n].row % (cols * rows)) % cols
          /\ B[n].row_on_page = (B[n].row % (cols * rows)) \div cols
          /\ 0 <= B[n].col /\ B[n].col < cols
          /\ 0 <= B[n].row_on_page /\ B[n].row_on_page < rows
    /\ \A n \in 1..Len(B) : \A m \in 1..(n - 1) :
          <<B[m].page, B[m].col, B[m].row_on_page>>
             # <<B[n].page, B[n].col, B[n].row_on_page>>
    /\ (cols = 2 /\ rows = 4 /\ total_rows = 10) =>
          /\ Len(B) >= 8 =>
                B[8] = [row |-> 7, page |-> 0, col |-> 1, row_on_page |-> 3]
          /\ Len(B) >= 9 =>
                B[9] = [row |-> 8, page |-> 1, col |-> 0, row_on_page |-> 0]

CellPlacementWitness ==
    /\ cols = 2
    /\ rows = 4
    /\ total_rows = 10
    /\ NumPlaced = 10
    /\ saved

\* c.save() has run (it emitted the open page before writing the file).
SaveRan ==
    \/ pc = "returned"
    \/ exc # None /\ exc[1].at = "save"
    \/ pc = "exited" /\ exc = None

\* C11: a page break is emitted exactly after a badge whose pageLocalIndex
\* is badgesPerPage - 1 when more badges remain, and nowhere else; so in
\* every run, completed or cancelled at any row boundary, the last page
\* holds at least one badge and no empty page trails the document.
PageBreaks ==
    LET bpp == cols * rows IN
    /\ \A p \in 1..Len(pages) :
          /\ pages[p] # <<>>
          /\ Len(pages[p]) <= bpp
          /\ (p < Len(pages) \/ ~SaveRan) =>
                /\ Len(pages[p]) = bpp
                /\ pages[p][bpp].row = p * bpp - 1
                /\ pages[p][bpp].row < total_rows - 1
    /\ Len(page) <= bpp
    /\ Len(page) = bpp => NumPlaced = total_rows
    /\ SaveRan => page = <<>>

PageBreaksWitness ==
    /\ Broke
    /\ saved
    /\ rows >= 2
    /\ polls[Len(polls)].row = 2 * cols * rows
    /\ Len(pages) = 2
    /\ Len(pages[2]) = cols * rows

\* C12: rows are processed strictly in data-source order: the i-th badge
\* placed is rendered from row i, row i is rendered only after rows
\* 0..i-1 have been placed, and no row is skipped, repeated or reordered.
RowsInOrder ==
    LET B == Badges IN
    /\ rendered = [n \in 1..Len(rendered) |-> n - 1]
    /\ [n \in 1..Len(B) |-> B[n].row] = [n \in 1..Len(B) |-> n - 1]
    /\ Len(B) <= Len(rendered)
    /\ Len(rendered) <= Len(B) + 1
    /\ Len(rendered) <= total_rows

RowsInOrderWitness ==
    /\ pc = "returned"
    /\ total_rows >= 5
    /\ rendered = [n \in 1..total_rows |-> n - 1]
    /\ NumPlaced = total_rows

\* C13: every read and write of a task's status, progress and error, and
\* of the task table, by the worker or by a request handler (start, status
\* poll, download), is made while holding state.lock.
TaskAccessUnderLock == \A a \in accesses : a.locked


\* _draw_field is at or past its while loop, with a width limit set: the
\* text is non-empty and the loop's variables are those of this field.
InShrink == rpc \in {"while", "draw"} /\ fields[fidx].max_width > 0

\* C14 (as stated): with a width limit set, the shrink loop makes at most
\* font_size - 8 decrements, its size never drops below 1, and the size it
\* ends with is at least 8.
ShrinkEndsAtLeastEight ==
    InShrink =>
        /\ n_shrinks <= fields[fidx].font_size - ShrinkFloor
        /\ effective_size >= 1
        /\ rpc = "draw" => effective_size >= ShrinkFloor

\* C14 (amended): with a width limit set, the shrink loop makes at most
\* max(font_size - 8, 0) decrements, each of one point, its size never drops
\* below 1, and the size it ends with is at least min(font_size, 8): a field
\* whose font_size is below 8 keeps that size.
ShrinkBounded ==
    InShrink =>
        LET size == fields[fidx].font_size IN
        /\ n_shrinks <= Max(size - ShrinkFloor, 0)
        /\ effective_size = size - n_shrinks
        /\ effective_size >= 1
        /\ rpc = "draw" => effective_size >= Min(size, ShrinkFloor)

\* The loop has ended at the floor after three decrements or more, the text
\* still wider than the limit.
ShrinkBoundedWitness ==
    /\ InShrink
    /\ rpc = "draw"
    /\ n_shrinks >= 3
    /\ n_shrinks = fields[fidx].font_size - ShrinkFloor
    /\ text_width > fields[fidx].max_width

\* The sizes from 8 to the field's font_size at which the text, measured
\* in the field's font, is no wider than the field's max_width.
FittingSizes(fp, t) ==
    { sz \in ShrinkFloor..fp.font_size :
         textbbox(t, _load_font(fp, sz)) <= fp.max_width }

\* The size the text of a field is to be drawn at, for font_size >= 8.
SizeToUse(fp, t) ==
    IF fp.max_width = 0 THEN fp.font_size
    ELSE IF FittingSizes(fp, t) = {} THEN ShrinkFloor
    ELSE CHOOSE sz \in FittingSizes(fp, t) :
            \A other \in FittingSizes(fp, t) : other <= sz

\* C15: for a field with font_size >= 8, the text is drawn at the largest
\* size from 8 to font_size at which it fits max_width, at 8 if it fits at
\* none (and is drawn all the same), and at font_size when max_width is 0;
\* the font drawn with is the font of that size.
LargestFittingSize ==
    /\ rpc = "draw" /\ fields[fidx].font_size >= ShrinkFloor =>
          /\ effective_size = SizeToUse(fields[fidx], text)
          /\ font.kind = "truetype" => font.size = effective_size
    /\ \A n \in 1..Len(badge.drawn) :
          LET op == badge.drawn[n] IN
          fields[op.field].font_size >= ShrinkFloor =>
              op.size = SizeToUse(fields[op.field], op.text)
    /\ rpc = "for" /\ fidx > 1 /\ render_exc = None
          /\ get_value(row_index, fields[fidx - 1].csv_column).value # <<>> =>
          /\ badge.drawn # <<>>
          /\ badge.drawn[Len(badge.drawn)].field = fidx - 1

\* The loop has stopped at a size strictly between 8 and font_size, the
\* first at which the text fits.
LargestFittingSizeWitness ==
    /\ rpc = "draw"
    /\ fields[fidx].max_width > 0
    /\ effective_size > ShrinkFloor
    /\ effective_size < fields[fidx].font_size
    /\ text_width <= fields[fidx].max_width

\* C17: render_badge never modifies the shared background, and the badge it
\* draws and returns for a row holds only text of that row's cells.
BackgroundUntouched ==
    /\ background # None => background[1] = SharedBackground
    /\ \A n \in 1..Len(badge.drawn) :
          LET op == badge.drawn[n] IN
          /\ op.row = row_index
          /\ op.text = get_value(op.row, fields[op.field].csv_column).value
    /\ rpc = "returned" => result = Some(badge)

\* A badge with text on it has been returned, made from the shared
\* background, after a badge of another row was drawn from it.
BackgroundUntouchedWitness ==
    /\ rpc = "returned"
    /\ background # None
    /\ result[1].drawn # <<>>
    /\ result[1].base = "background"
    /\ \E e \in drawn_log : e.row # row_index

\* C18: rendering leaves every FieldPlacement as it was when render_badge
\* was called, and every rendering of a row draws a field at the same size.
FieldPlacementUnchanged ==
    /\ fields = fp_before
    /\ \A a, b \in drawn_log :
          a.row = b.row /\ a.field = b.field => a.size = b.size
    /\ rpc = "draw" =>
          \A e \in drawn_log :
             e.row = row_index /\ e.field = fidx => e.size = effective_size

\* A row is being rendered again, its text shrunk again to the size it was
\* drawn at before.
FieldPlacementUnchangedWitness ==
    /\ rpc = "draw"
    /\ n_shrinks > 0
    /\ [row |-> row_index, field |-> fidx, size |-> effective_size]
          \in drawn_log

\* The CSV data has no cell for this row index and column.
Missing(r, column) ==
    \/ r < 0
    \/ r >= Len(csv_rows)
    \/ column \notin DOMAIN csv_rows[r + 1]

\* The fields for which the image holds a draw.text call.
FieldsDrawn(img) == { img.drawn[n].field : n \in 1..Len(img.drawn) }

\* C19: get_value never raises and returns "" for an absent column and for
\* a row index out of range, negative or too large; render_badge then
\* raises nothing, draws nothing for such a field and draws every field
\* that has a non-empty cell.
MissingDataDrawsNothing ==
    /\ \A r \in (0 - 1)..Len(csv_rows), c \in {"Name", "Title", "Nick"} :
          /\ get_value(r, c).raised = None
          /\ Missing(r, c) => get_value(r, c).value = <<>>
          /\ ~Missing(r, c) => get_value(r, c).value = csv_rows[r + 1][c]
    /\ rpc # "raised"
    /\ render_exc = None
    /\ rpc = "returned" =>
          FieldsDrawn(result[1]) =
             { f \in 1..Len(fields) :
                  /\ ~Missing(row_index, fields[f].csv_column)
                  /\ csv_rows[row_index + 1][fields[f].csv_column] # <<>> }

\* A badge was returned for a row that has no cell for the first field's
\* column, with the second field drawn on it.
MissingDataDrawsNothingWitness ==
    /\ rpc = "returned"
    /\ row_index = 0
    /\ csv_rows # <<>>
    /\ Missing(row_index, fields[1].csv_column)
    /\ FieldsDrawn(result[1]) = {2}

\* export_pdf has computed a layout for a template of positive width and
\* height, and the cells have positive width and height.
PositiveLayout ==
    /\ layout.status = "ok"
    /\ config.badge_width > 0
    /\ config.badge_height > 0
    /\ Less(Whole(0), layout.cell_w)
    /\ Less(Whole(0), layout.cell_h)

\* C16: for a template and cells of positive width and height, the draw
\* size fits the cell (draw_w <= cell_w, draw_h <= cell_h) and has the
\* template's aspect ratio (draw_w * badge_height = draw_h * badge_width).
DrawSizeFitsCell ==
    PositiveLayout =>
        /\ AtMost(layout.draw_w, layout.cell_w)
        /\ AtMost(layout.draw_h, layout.cell_h)
        /\ Times(layout.draw_w, Whole(config.badge_height))
              = Times(layout.draw_h, Whole(config.badge_width))

\* C20: in every state of an editing session the template has
\* badge_width > 0, badge_height > 0, badges_per_row >= 1 and
\* badges_per_col >= 1.
TemplateDimensionsPositive ==
    /\ config.badge_width > 0
    /\ config.badge_height > 0
    /\ config.badges_per_row >= 1
    /\ config.badges_per_col >= 1

\* ============================================== canvas editor properties

\* The last compute_scale_factor call had positive image and canvas sizes.
PositiveScaleArgs ==
    /\ scale_args # None
    /\ \A arg \in 1..4 : scale_args[1][arg] > 0

\* C21: for positive image and canvas sizes the scale returned by
\* compute_scale_factor satisfies image_width * scale <= canvas_width and
\* image_height * scale <= canvas_height, and at least one of the two
\* products equals its bound.
ScaleFitsCanvas ==
    PositiveScaleArgs =>
        LET a == scale_args[1]
            w == Times(Whole(a[1]), _scale)
            h == Times(Whole(a[2]), _scale)
        IN /\ AtMost(w, Whole(a[3]))
           /\ AtMost(h, Whole(a[4]))
           /\ (w = Whole(a[3]) \/ h = Whole(a[4]))

\* A refresh scaled a badge whose width fills the canvas while its height
\* stays strictly inside.
ScaleFitsCanvasWitness ==
    /\ PositiveScaleArgs
    /\ Times(Whole(scale_args[1][1]), _scale) = Whole(scale_args[1][3])
    /\ Less(Times(Whole(scale_args[1][2]), _scale), Whole(scale_args[1][4]))

\* The position of field k taken to the canvas and back with the editor's
\* current scale and offsets.
RoundTrip(k) ==
    LET on_canvas == image_to_canvas(field_xy[k][1], field_xy[k][2],
                                     _scale, _offset_x, _offset_y)
    IN canvas_to_image(on_canvas[1], on_canvas[2],
                       _scale, _offset_x, _offset_y)

\* C22: for every scale > 0 and all offsets,
\* canvas_to_image(image_to_canvas(x, y, ...), ...) = (x, y); for scale = 0
\* canvas_to_image returns (0, 0).
CoordinatesRoundTrip ==
    \A k \in 1..Len(field_xy) :
        /\ Less(Whole(0), _scale) => RoundTrip(k) = field_xy[k]
        /\ _scale = Whole(0) =>
              canvas_to_image(item_coords[k][1], item_coords[k][2],
                              _scale, _offset_x, _offset_y)
                 = <<Whole(0), Whole(0)>>

\* A field dropped at a position that is not a whole number of pixels makes
\* the round trip under a scale other than 1 and offsets other than 0.
CoordinatesRoundTripWitness ==
    /\ released # None
    /\ Less(Whole(0), _scale)
    /\ _scale # Whole(1)
    /\ _offset_x # Whole(0)
    /\ _offset_y # Whole(0)
    /\ \E k \in 1..Len(field_xy) :
          /\ field_xy[k][1].d # 1
          /\ RoundTrip(k) = field_xy[k]

\* The editor's scale is 0 (a canvas 20 pixels wide) while a field is shown.
ScaleZeroReached ==
    /\ _scale = Whole(0)
    /\ Len(field_xy) > 0

\* C23: after any drag-release, the coordinates stored for the dragged
\* field satisfy 0 <= x <= badge_width and 0 <= y <= badge_height, the
\* coordinates of every other field are unchanged, and no field remains
\* selected for dragging.
ReleaseClamped ==
    released # None =>
        LET r == released[1]
            at == r.after[r.idx]
        IN /\ AtMost(Whole(0), at[1])
           /\ AtMost(at[1], Whole(r.badge_width))
           /\ AtMost(Whole(0), at[2])
           /\ AtMost(at[2], Whole(r.badge_height))
           /\ \A k \in 1..Len(r.before) :
                 k # r.idx => r.after[k] = r.before[k]
           /\ r.drag = None

\* ================================================== placement on the page
\* The page and gaps export_pdf works with for the session's template.
page_w == _get_page_size(config.page_size)[1]
page_h == _get_page_size(config.page_size)[2]
margin == Times(config.margin_mm, mm)
spacing == Times(config.spacing_mm, mm)
usable_w == Minus(page_w, Times(Whole(2), margin))
usable_h == Minus(page_h, Times(Whole(2), margin))

\* The grid cell of column in_col: its left edge, and of row on_row: its
\* bottom edge (the origin is the page's bottom-left corner).
cell_x(in_col) ==
    Plus(margin, Times(Whole(in_col), Plus(layout.cell_w, spacing)))
cell_y(on_row) ==
    Minus(Minus(Minus(page_h, margin),
                Times(Whole(on_row + 1), layout.cell_h)),
          Times(Whole(on_row), spacing))

\* x and y handed to drawImage for the badge of column in_col, row on_row.
badge_x(in_col) ==
    Plus(cell_x(in_col), Over(Minus(layout.cell_w, layout.draw_w), Whole(2)))

\* y of drawImage counted from the page's bottom margin upwards.
badge_y_upwards(on_row) ==
    Plus(Plus(Plus(margin, Times(Whole(on_row), layout.cell_h)),
              Times(Whole(on_row), spacing)),
         Over(Minus(layout.cell_h, layout.draw_h), Whole(2)))

badge_y(on_row) ==
    Plus(cell_y(on_row),
         Over(Minus(layout.cell_h, layout.draw_h), Whole(2)))

\* export_pdf has computed a layout for a page with positive usable area,
\* at least one column and one row, and a spacing that is not negative.
UsableLayout ==
    /\ layout.status = "ok"
    /\ Less(Whole(0), usable_w)
    /\ Less(Whole(0), usable_h)
    /\ config.badges_per_row >= 1
    /\ config.badges_per_col >= 1
    /\ AtMost(Whole(0), spacing)

\* C24: for positive usable area, cols, rows >= 1 and spacing >= 0, every
\* badge rectangle lies inside its own grid cell and is centred in it, the
\* cells of neighbouring columns and rows are separated by exactly the
\* spacing, and every badge rectangle lies within the page margins.
BadgeInsideCell ==
    UsableLayout =>
        /\ \A in_col \in 0..(config.badges_per_row - 1) :
              LET x == badge_x(in_col)
                  right == Plus(x, layout.draw_w)
                  cell_right == Plus(cell_x(in_col), layout.cell_w)
              IN /\ AtMost(cell_x(in_col), x)
                 /\ AtMost(right, cell_right)
                 /\ Minus(x, cell_x(in_col)) = Minus(cell_right, right)
                 /\ AtMost(margin, x)
                 /\ AtMost(right, Minus(page_w, margin))
                 /\ in_col > 0 =>
                       Minus(cell_x(in_col),
                             Plus(cell_x(in_col - 1), layout.cell_w)) = spacing
        /\ \A r \in 0..(config.badges_per_col - 1) :
              LET y == badge_y(r)
                  top == Plus(y, layout.draw_h)
                  cell_top == Plus(cell_y(r), layout.cell_h)
              IN /\ AtMost(cell_y(r), y)
                 /\ AtMost(top, cell_top)
                 /\ Minus(y, cell_y(r)) = Minus(cell_top, top)
                 /\ AtMost(margin, y)
                 /\ AtMost(top, Minus(page_h, margin))
                 /\ r > 0 => Minus(cell_y(r - 1), cell_top) = spacing

\* The bottom edge of the cell the badge of row on_row is centred in.
cell_bottom(on_row) ==
    Minus(badge_y(on_row),
          Over(Minus(layout.cell_h, layout.draw_h), Whole(2)))

MaxWebRows == 2

\* A row dict of the one-column CSV.
Row(v) == [Name |-> v]

\* The CSV files uploaded: an empty file, a header line only, and a header
\* line with two rows.
CsvFiles ==
    { [headers |-> <<>>, rows |-> <<>>],
      [headers |-> <<"Name">>, rows |-> <<>>],
      [headers |-> <<"Name">>, rows |-> <<Row(<<"A">>), Row(<<"B">>)>>] }

\* The row indexes requested.
RowIndexes == 0..MaxWebRows

InitWeb ==
    /\ frontend = "web"
    /\ cols = 1
    /\ rows = 1
    /\ total_rows = 0
    /\ ExportIdle
    /\ RenderIdle
    /\ SessionIdle
    /\ EditorIdle

is_loaded == Len(csv_headers) > 0
row_count == Len(csv_rows)

\* [dict(r) for r in rows]: a new list of new dicts, which shares nothing
\* with the session's rows.
\* Mutant of CopyRows: the session's list itself is handed to the worker.
RowsByReference(session_rows) == [list |-> session_rows, shared |-> TRUE]

CopyRows(session_rows) == [list |-> session_rows, shared |-> FALSE]

\* What the worker's rows are after the session's row list was changed in
\* place to new_rows.
SeenByWorker(new_rows) ==
    IF captured # None /\ captured[1].rows.shared
    THEN Some([captured[1] EXCEPT !.rows.list = new_rows])
    ELSE captured

\* The response of a CSV handler, with what the claim about it needs: the
\* handler, whether the index it was given is a row's, whether a CSV was
\* loaded, the status code, and whether the handler changed the session.
Response(op, in_range, code) ==
    Some([op |-> op, in_range |-> in_range, loaded |-> is_loaded,
          code |-> code,
          changed |-> <<csv_headers, csv_rows, current_row>>'
                         # <<csv_headers, csv_rows, current_row>>])

\* rows.pop(idx)
Pop(list, idx) ==
    [k \in 1..(Len(list) - 1) |-> IF k <= idx THEN list[k] ELSE list[k + 1]]

\* POST /api/upload-csv: CSVData.load replaces headers and rows, and
\* current_row is reset; a csv.Error raised while the rows are read leaves
\* the new headers with the old rows and answers 400.
upload_csv ==
    /\ frontend = "web"
    /\ \E f \in CsvFiles, loads \in BOOLEAN :
          /\ loads \/ f.rows # <<>>
          /\ csv_headers' = f.headers
          /\ csv_rows' = IF loads THEN f.rows ELSE csv_rows
          /\ current_row' = IF loads THEN 0 ELSE current_row
          /\ csv_resp' = Response("upload_csv", TRUE,
                                  IF loads THEN 200 ELSE 400)
    /\ UNCHANGED <<exportCore, renderRest, sessionVars, editorVars, post,
                   captured>>

\* GET /api/csv/row/<idx>
get_row ==
    /\ frontend = "web"
    /\ UNCHANGED <<csv_headers, csv_rows>>
    /\ \E idx \in RowIndexes :
          /\ current_row' = IF is_loaded /\ idx < row_count THEN idx
                            ELSE current_row
          /\ csv_resp' = Response("get_row", idx < row_count,
                                  IF ~is_loaded THEN 400
                                  ELSE IF idx >= row_count THEN 404
                                  ELSE 200)
    /\ UNCHANGED <<exportCore, renderRest, sessionVars, editorVars, post,
                   captured>>

\* POST /api/csv/row: the row is appended and becomes the current row.
add_row ==
    /\ frontend = "web"
    /\ row_count < MaxWebRows
    /\ \E row \in {Row(<<"A">>)} :
          /\ csv_headers' = IF csv_headers = <<>> THEN <<"Name">>
                            ELSE csv_headers
          /\ csv_rows' = Append(csv_rows, row)
    /\ current_row' = Len(csv_rows') - 1
    /\ csv_resp' = Response("add_row", TRUE, 200)
    /\ captured' = SeenByWorker(csv_rows')
    /\ UNCHANGED <<exportCore, renderRest, sessionVars, editorVars, post>>

\* PUT /api/csv/row/<idx>: the row dict is updated in place.
update_row ==
    /\ frontend = "web"
    /\ UNCHANGED <<csv_headers, current_row>>
    /\ \E idx \in RowIndexes :
          /\ csv_rows' = IF idx >= row_count THEN csv_rows
                         ELSE [csv_rows EXCEPT ![idx + 1].Name = <<"B">>]
          /\ csv_resp' = Response("update_row", idx < row_count,
                                  IF idx >= row_count THEN 404 ELSE 200)
          /\ captured' = IF idx >= row_count THEN captured
                         ELSE SeenByWorker(csv_rows')
    /\ UNCHANGED <<exportCore, renderRest, sessionVars, editorVars, post>>

\* Mutant of delete_row: current_row is left as it was.
delete_row_keeps_current ==
    /\ frontend = "web"
    /\ UNCHANGED csv_headers
    /\ \E idx \in RowIndexes :
          /\ csv_rows' = IF idx >= row_count THEN csv_rows
                         ELSE Pop(csv_rows, idx)
          /\ current_row' = current_row
          /\ csv_resp' = Response("delete_row", idx < row_count,
                                  IF idx >= row_count THEN 404 ELSE 200)
          /\ captured' = IF idx >= row_count THEN captured
                         ELSE SeenByWorker(csv_rows')
    /\ UNCHANGED <<exportCore, renderRest, sessionVars, editorVars, post>>

\* DELETE /api/csv/row/<idx>: rows.pop(idx), then current_row is pulled
\* back onto the last row, or to 0 when no row is left.
delete_row ==
    /\ frontend = "web"
    /\ UNCHANGED csv_headers
    /\ \E idx \in RowIndexes :
          /\ csv_rows' = IF idx >= row_count THEN csv_rows
                         ELSE Pop(csv_rows, idx)
          /\ current_row' =
                IF idx >= row_count THEN current_row
                ELSE IF current_row >= Len(csv_rows') /\ Len(csv_rows') > 0
                THEN Len(csv_rows') - 1
                ELSE IF Len(csv_rows') = 0 THEN 0
                ELSE current_row
          /\ csv_resp' = Response("delete_row", idx < row_count,
                                  IF idx >= row_count THEN 404 ELSE 200)
          /\ captured' = IF idx >= row_count THEN captured
                         ELSE SeenByWorker(csv_rows')
    /\ UNCHANGED <<exportCore, renderRest, sessionVars, editorVars, post>>

\* PUT /api/config with a page size, the template edit of the web session.
set_page_size ==
    /\ update_config
    /\ config' \in {DefaultConfig, [DefaultConfig EXCEPT !.page_size = "A4"]}

\* --------------------------------- POST /api/export-pdf, step by step
\* What the steps of the handler leave alone.
postRest == <<frontend, cols, rows, i, docVars, rendered, polls,
              progress_calls, exc, dlgVars, status_resp, download_resp,
              renderVars, sessionVars, editorVars, csv_headers, current_row,
              csv_resp>>

\* start_pdf_export up to the task dict: "total" is the session's row count
\* as it is read here, with state.lock not held. Without a loaded CSV the
\* handler answers 400 and changes nothing.
BuildTask ==
    /\ frontend = "web"
    /\ post.pc = "idle"
    /\ pc = "idle"
    /\ is_loaded
    /\ post' = [pc |-> "built",
                task |-> Some([status |-> "running", progress |-> 0,
                               total |-> row_count, error |-> None])]
    /\ UNCHANGED <<postRest, total_rows, pc, task, accesses, captured>>

\* with state.lock: state.export_tasks[task_id] = task
RegisterTask ==
    /\ post.pc = "built"
    /\ task' = post.task
    /\ post' = [post EXCEPT !.pc = "registered"]
    /\ accesses' = accesses \cup
          {Access("start_pdf_export", "export_tasks", "write", TRUE)}
    /\ UNCHANGED <<postRest, total_rows, pc, captured>>

\* The copies made for the worker, and the worker thread's start: export_pdf
\* loops over the rows of the copy.
CaptureAndStart ==
    /\ post.pc = "registered"
    /\ captured' = Some([config |-> config, headers |-> csv_headers,
                         rows |-> CopyRows(csv_rows),
                         background |-> background])
    /\ total_rows' = Len(captured'[1].rows.list)
    /\ pc' = "loop"
    /\ post' = [post EXCEPT !.pc = "returned"]
    /\ UNCHANGED <<postRest, task, accesses>>

NextWeb ==
    \/ upload_csv
    \/ get_row
    \/ add_row
    \/ update_row
    \/ delete_row
    \/ set_page_size
    \/ BuildTask
    \/ RegisterTask
    \/ CaptureAndStart
    \/ LoopHead
    \/ Render
    \/ Place
    \/ Progress
    \/ Save
    \/ WebRunExportExit

SpecWeb == InitWeb /\ [][NextWeb]_vars

\* ================================================ web session properties
\* C26: for every web export task 0 <= progress <= total, and status
\* "done" implies progress = total, where total is the row count recorded
\* when the task was created, also when other requests add or delete rows
\* while POST /api/export-pdf is being handled.
TaskProgressWithinTotal ==
    task # None =>
        /\ 0 <= task[1].progress
        /\ task[1].progress <= task[1].total
        /\ task[1].status = "done" => task[1].progress = task[1].total

\* C27: the rows, headers, template and background the worker is given are
\* those of the session at the moment start_pdf_export copies them, the
\* worker loops over exactly these rows, and no later edit of the session
\* changes them.
CapturedAtPost ==
    [][ /\ (captured = None /\ captured' # None) =>
              /\ captured'[1].rows.list = csv_rows
              /\ captured'[1].headers = csv_headers
              /\ captured'[1].config = config
              /\ captured'[1].background = background
              /\ total_rows' = Len(csv_rows)
        /\ captured # None =>
              /\ captured'[1].rows.list = captured[1].rows.list
              /\ captured'[1].headers = captured[1].headers
              /\ captured'[1].config = captured[1].config
              /\ captured'[1].background = captured[1].background
              /\ total_rows' = Len(captured[1].rows.list) ]_vars

\* The export is done, and since it was started the session's rows and page
\* size were edited: they differ from what the worker was given.
CapturedAtPostWitness ==
    /\ captured # None
    /\ task # None
    /\ task[1].status = "done"
    /\ Len(captured[1].rows.list) = MaxWebRows
    /\ csv_rows # captured[1].rows.list
    /\ config # captured[1].config

\* The session's current_row is a row's index, or 0 when there is no row.
CurrentRowInRange ==
    IF row_count > 0
    THEN current_row >= 0 /\ current_row < row_count
    ELSE current_row = 0

\* C30 as stated: current_row is always valid, and a handler given an index
\* that is no row's answers 404 and changes nothing.
CurrentRowValid ==
    /\ CurrentRowInRange
    /\ (csv_resp # None /\ ~csv_resp[1].in_range) =>
          /\ csv_resp[1].code = 404
          /\ ~csv_resp[1].changed

\* C30: current_row is always valid, and a handler given an index that is
\* no row's changes nothing and answers 404, except get-row with no CSV
\* loaded, which answers 400.
CurrentRowValidOr400 ==
    /\ CurrentRowInRange
    /\ (csv_resp # None /\ ~csv_resp[1].in_range) =>
          /\ ~csv_resp[1].changed
          /\ csv_resp[1].code =
                IF csv_resp[1].op = "get_row" /\ ~csv_resp[1].loaded
                THEN 400 ELSE 404

\* The last row was deleted while it was the current row, and current_row
\* moved back onto the row that is left.
CurrentRowValidOr400Witness ==
    /\ csv_resp # None
    /\ csv_resp[1].op = "delete_row"
    /\ csv_resp[1].code = 200
    /\ csv_resp[1].changed
    /\ row_count = 1
    /\ current_row = 0

\* ============================================ export outcome properties
\* C28: the download endpoint serves a file only when the task exists and
\* its status is "done", and the status is "done" only after export_pdf has
\* returned with the document saved.
DownloadOnlyWhenSaved ==
    /\ download_resp = "file" => (task # None /\ task[1].status = "done")
    /\ (task # None /\ task[1].status = "done") =>
          (saved /\ pc = "exited" /\ exc = None)

\* The file of a finished export of several rows was served.
DownloadOnlyWhenSavedWitness ==
    /\ download_resp = "file"
    /\ saved
    /\ total_rows >= 2
    /\ Len(rendered) = total_rows

\* The worker thread runs whenever it can take a step (each call it makes
\* returns or raises), and the Tk main loop runs the callbacks scheduled
\* with after(0, ...). The user's Cancel click and the web client's polls
\* are not required to happen.
Fairness ==
    /\ WF_vars(LoopHead)
    /\ WF_vars(Render)
    /\ WF_vars(Place)
    /\ WF_vars(Progress)
    /\ WF_vars(Save)
    /\ WF_vars(DialogRunExportExit)
    /\ WF_vars(WebRunExportExit)
    /\ WF_vars(UpdateUi)
    /\ WF_vars(Finish)

SpecFair == Spec /\ Fairness

\* The export has ended: the worker thread has left run_export, the web
\* task is "done" or "error", the desktop dialog is destroyed.
Terminal ==
    /\ pc = "exited"
    /\ frontend = "web" => task[1].status \in {"done", "error"}
    /\ frontend = "desktop" => ~dialog_open

\* C29: every started export reaches a terminal state: the loop makes at
\* most total_rows iterations, the web task does not stay "running", and
\* the desktop dialog's _finish runs, so the dialog closes.
ExportTerminates ==
    /\ [](i <= total_rows /\ Len(rendered) <= total_rows)
    /\ (pc # "idle") ~> Terminal

\* A desktop export that raised has ended with its dialog closed and the
\* error shown.
ExportTerminatesWitness ==
    /\ frontend = "desktop"
    /\ Terminal
    /\ exc # None
    /\ error_box # None
    /\ total_rows = MaxRowCount
====
